---- MODULE Spec2Model ----
(***************************************************************************)
(* Model of board-game-rs: the Board contract (src/src/board.rs) and the   *)
(* MaxMovesBoard decorator (src/src/games/max_length.rs).                  *)
(*                                                                         *)
(* The generic code is exercised on one concrete inner game, a 2x2 board   *)
(* with a pass move and the eight symmetries of the square.  A player wins *)
(* by owning a whole diagonal, the game is a draw when the board is full,  *)
(* and passing lets the inner game go on for ever.                         *)
(***************************************************************************)
EXTENDS Integers, Sequences, FiniteSets, TLC

\* Largest ply cap handed to MaxMovesBoard::new.
MaxCap == 3

(***************************************************************************)
(* Player and Outcome (board.rs).                                          *)
(***************************************************************************)
Player == {"A", "B"}

\* Variant: both arms of the match give the same player.
other_same_arm(p) == IF p = "A" THEN "B" ELSE "B"

other(p) == IF p = "A" THEN "B" ELSE "A"

None == "None"
Draw == "Draw"
WonBy(p) == IF p = "A" THEN "WonByA" ELSE "WonByB"
Outcome == {WonBy("A"), WonBy("B"), Draw}

\* Result of a call that returned normally / that panicked.
Ok(v) == [panic |-> FALSE, touched |-> TRUE, val |-> v]
\* touched tells whether the inner board had been called before the panic.
Panic(touched) == [panic |-> TRUE, touched |-> touched, val |-> "panic"]

(***************************************************************************)
(* The inner game.  Cells are numbered 1 + x + 2*y for x, y in {0, 1};     *)
(* a cell holds 0 (empty), 1 (player A) or 2 (player B).                   *)
(***************************************************************************)
Cells == 1..4
Pass == 0
Moves == {Pass} \cup Cells

mark(p) == IF p = "A" THEN 1 ELSE 2
owner(m) == IF m = 1 THEN "A" ELSE "B"

Inner_next_player(b) == b.next

Inner_outcome(b) ==
  IF b.cells[1] # 0 /\ b.cells[1] = b.cells[4] THEN WonBy(owner(b.cells[1]))
  ELSE IF b.cells[2] # 0 /\ b.cells[2] = b.cells[3] THEN WonBy(owner(b.cells[2]))
  ELSE IF \A c \in Cells : b.cells[c] # 0 THEN Draw
  ELSE None

Inner_is_done(b) == Inner_outcome(b) # None

Inner_is_available_move(b, mv) ==
  IF Inner_is_done(b) THEN Panic(TRUE)
  ELSE Ok(mv = Pass \/ b.cells[mv] = 0)

Inner_all_possible_moves == <<0, 1, 2, 3, 4>>

RECURSIVE Inner_scan(_, _)
Inner_scan(b, c) ==
  IF c > 4 THEN <<>>
  ELSE (IF b.cells[c] = 0 THEN <<c>> ELSE <<>>) \o Inner_scan(b, c + 1)

Inner_available_moves(b) ==
  IF Inner_is_done(b) THEN Panic(TRUE)
  ELSE Ok(<<Pass>> \o Inner_scan(b, 1))

Inner_play(b, mv) ==
  IF Inner_is_done(b) THEN Panic(TRUE)
  ELSE IF mv # Pass /\ b.cells[mv] # 0 THEN Panic(TRUE)
  ELSE Ok([cells |-> IF mv = Pass THEN b.cells
                     ELSE [b.cells EXCEPT ![mv] = mark(b.next)],
           next |-> other(b.next)])

\* Every position of the inner game that direct play reaches.
EmptyBoard(p) == [cells |-> <<0, 0, 0, 0>>, next |-> p]

RECURSIVE InnerReach(_)
InnerReach(S) ==
  LET Succ(b) == {Inner_play(b, mv).val :
                    mv \in {m \in Moves : m = Pass \/ b.cells[m] = 0}}
      N == S \cup UNION {Succ(b) : b \in {x \in S : ~Inner_is_done(x)}}
  IN IF N = S THEN S ELSE InnerReach(N)

InnerBoards == InnerReach({EmptyBoard("A")})

(***************************************************************************)
(* Symmetries of the inner game: the group of the square.  An element      *)
(* transposes the coordinates first and then flips each axis.              *)
(***************************************************************************)
Sym(t, fx, fy) == [transpose |-> t, flip_x |-> fx, flip_y |-> fy]

\* Symmetry::all(), in its fixed enumeration order; the identity comes first.
Symmetry_all ==
  << Sym(FALSE, FALSE, FALSE), Sym(FALSE, FALSE, TRUE),
     Sym(FALSE, TRUE, FALSE),  Sym(FALSE, TRUE, TRUE),
     Sym(TRUE, FALSE, FALSE),  Sym(TRUE, FALSE, TRUE),
     Sym(TRUE, TRUE, FALSE),   Sym(TRUE, TRUE, TRUE) >>

Symmetries == {Symmetry_all[i] : i \in 1..Len(Symmetry_all)}

map_cell(sym, c) ==
  LET x0 == (c - 1) % 2
      y0 == (c - 1) \div 2
      x1 == IF sym.transpose THEN y0 ELSE x0
      y1 == IF sym.transpose THEN x0 ELSE y0
      x2 == IF sym.flip_x THEN 1 - x1 ELSE x1
      y2 == IF sym.flip_y THEN 1 - y1 ELSE y1
  IN 1 + x2 + 2 * y2

Inner_map_move(sym, mv) == IF mv = Pass THEN Pass ELSE map_cell(sym, mv)

\* The cell that map_cell(sym, _) sends to d: undo the flips, then the
\* transposition.
unmap_cell(sym, d) ==
  LET x2 == (d - 1) % 2
      y2 == (d - 1) \div 2
      x1 == IF sym.flip_x THEN 1 - x2 ELSE x2
      y1 == IF sym.flip_y THEN 1 - y2 ELSE y2
      x0 == IF sym.transpose THEN y1 ELSE x1
      y0 == IF sym.transpose THEN x1 ELSE y1
  IN 1 + x0 + 2 * y0

\* The mark of cell c moves to cell map_cell(sym, c).
Inner_map(b, sym) ==
  [cells |-> << b.cells[unmap_cell(sym, 1)], b.cells[unmap_cell(sym, 2)],
                b.cells[unmap_cell(sym, 3)], b.cells[unmap_cell(sym, 4)] >>,
   next |-> b.next]

\* All the state that map can change: the cells, read as a base-3 number.
Inner_canonical_key(b) ==
  b.cells[1] + 3 * b.cells[2] + 9 * b.cells[3] + 27 * b.cells[4]

(***************************************************************************)
(* BoardSymmetry::canonicalize (board.rs), the default algorithm.          *)
(***************************************************************************)
\* The images of b under every element, in enumeration order.
candidates(b) ==
  << Inner_map(b, Symmetry_all[1]), Inner_map(b, Symmetry_all[2]),
     Inner_map(b, Symmetry_all[3]), Inner_map(b, Symmetry_all[4]),
     Inner_map(b, Symmetry_all[5]), Inner_map(b, Symmetry_all[6]),
     Inner_map(b, Symmetry_all[7]), Inner_map(b, Symmetry_all[8]) >>

\* Iterator::min_by_key: index of the selected element.  The key of each
\* element is computed once; the element kept so far is replaced only by one
\* whose key is strictly smaller.
\* Variant: an equal key replaces the element kept so far (last minimum).
RECURSIVE min_by_key_from_last(_, _, _, _)
min_by_key_from_last(cands, i, best, bestKey) ==
  IF i > Len(cands) THEN best
  ELSE LET key == Inner_canonical_key(cands[i])
       IN IF bestKey >= key
          THEN min_by_key_from_last(cands, i + 1, i, key)
          ELSE min_by_key_from_last(cands, i + 1, best, bestKey)

RECURSIVE min_by_key_from(_, _, _, _)
min_by_key_from(cands, i, best, bestKey) ==
  IF i > Len(cands) THEN best
  ELSE LET key == Inner_canonical_key(cands[i])
       IN IF bestKey > key
          THEN min_by_key_from(cands, i + 1, i, key)
          ELSE min_by_key_from(cands, i + 1, best, bestKey)

min_by_key(cands) ==
  min_by_key_from(cands, 2, 1, Inner_canonical_key(cands[1]))

\* Variant: the last element of Symmetry::all() is never tried.
canonicalize_skip_last(b) ==
  LET cands == SubSeq(candidates(b), 1, Len(Symmetry_all) - 1)
  IN cands[min_by_key(cands)]

canonicalize(b) == LET cands == candidates(b) IN cands[min_by_key(cands)]

(***************************************************************************)
(* Board::random_available_move (board.rs), the default algorithm, as the  *)
(* inner game inherits it.  index is the value drawn by rng.gen_range.     *)
(***************************************************************************)
\* Variant: nth is off by one (saturating at the first move).
Inner_random_available_move_off(b, index) ==
  LET am == Inner_available_moves(b)
  IN IF am.panic THEN am
     ELSE LET count == Len(am.val)
          IN IF index >= count THEN Panic(TRUE)
             ELSE Ok(am.val[IF index = 0 THEN 1 ELSE index])

Inner_random_available_move(b, index) ==
  LET am == Inner_available_moves(b)
  IN IF am.panic THEN am
     ELSE LET count == Len(am.val)
          IN IF index >= count THEN Panic(TRUE) ELSE Ok(am.val[index + 1])

(***************************************************************************)
(* MaxMovesBoard (max_length.rs).                                          *)
(***************************************************************************)
new(b, cap) == [inner |-> b, moves |-> 0, max_moves |-> cap]

\* Variant: the inner board's outcome is consulted before the cap.
outcome_inner_first(w) ==
  IF Inner_outcome(w.inner) # None THEN Inner_outcome(w.inner)
  ELSE IF w.moves = w.max_moves THEN Draw ELSE None

\* Variant: the cap strikes one ply early.
outcome_cap_early(w) ==
  IF w.moves + 1 >= w.max_moves THEN Draw ELSE Inner_outcome(w.inner)

\* Variant: the cap is tested with > instead of ==.
outcome_cap_after(w) ==
  IF w.moves > w.max_moves THEN Draw ELSE Inner_outcome(w.inner)

\* Variant: the cap is never applied.
outcome_inner_only(w) == Inner_outcome(w.inner)

\* Variant: the inner board's outcome is never reported.
outcome_cap_only(w) ==
  IF w.moves = w.max_moves THEN Draw ELSE None

outcome(w) ==
  IF w.moves = w.max_moves THEN Draw ELSE Inner_outcome(w.inner)

\* Variant: is_done is delegated to the inner board.
is_done_inner(w) == Inner_is_done(w.inner)

is_done(w) == outcome(w) # None

\* Variant: the player to move is derived from the wrapper's ply counter.
next_player_by_parity(w) == IF w.moves % 2 = 0 THEN "A" ELSE "B"

next_player(w) == Inner_next_player(w.inner)

is_available_move(w, mv) ==
  IF is_done(w) THEN Panic(FALSE) ELSE Inner_is_available_move(w.inner, mv)

available_moves(w) ==
  IF is_done(w) THEN Panic(FALSE) ELSE Inner_available_moves(w.inner)

all_possible_moves == Inner_all_possible_moves

\* Variant: the ply counter is not incremented.
play_no_count(w, mv) ==
  IF is_done(w) THEN Panic(FALSE)
  ELSE LET r == Inner_play(w.inner, mv)
       IN IF r.panic THEN r
          ELSE Ok([inner |-> r.val, moves |-> w.moves,
                   max_moves |-> w.max_moves])

\* Variant: the ply counter is incremented twice.
play_double(w, mv) ==
  IF is_done(w) THEN Panic(FALSE)
  ELSE LET r == Inner_play(w.inner, mv)
       IN IF r.panic THEN r
          ELSE Ok([inner |-> r.val, moves |-> w.moves + 2,
                   max_moves |-> w.max_moves])

\* Variant: play asserts that the inner board, not the wrapper, is not done.
play_inner_check(w, mv) ==
  IF Inner_is_done(w.inner) THEN Panic(FALSE)
  ELSE LET r == Inner_play(w.inner, mv)
       IN IF r.panic THEN r
          ELSE Ok([inner |-> r.val, moves |-> w.moves + 1,
                   max_moves |-> w.max_moves])

\* Variant: play does not assert that the board is not done.
play_unchecked(w, mv) ==
  LET r == Inner_play(w.inner, mv)
  IN IF r.panic THEN r
     ELSE Ok([inner |-> r.val, moves |-> w.moves + 1,
              max_moves |-> w.max_moves])

play(w, mv) ==
  IF is_done(w) THEN Panic(FALSE)
  ELSE LET r == Inner_play(w.inner, mv)
       IN IF r.panic THEN r
          ELSE Ok([inner |-> r.val, moves |-> w.moves + 1,
                   max_moves |-> w.max_moves])

random_available_move(w, index) ==
  IF is_done(w) THEN Panic(FALSE)
  ELSE Inner_random_available_move(w.inner, index)

\* Variant: map builds the image with a fresh ply counter.
map_fresh(w, sym) ==
  [inner |-> Inner_map(w.inner, sym), moves |-> 0, max_moves |-> w.max_moves]

map(w, sym) ==
  [inner |-> Inner_map(w.inner, sym), moves |-> w.moves,
   max_moves |-> w.max_moves]

map_move(sym, mv) == Inner_map_move(sym, mv)

\* Variant: the clone is returned without the move played on it.
clone_and_play_unplayed(w, mv) ==
  LET next == w
      r == play(next, mv)
  IN IF r.panic THEN r ELSE Ok([self |-> w, next |-> next])

\* Board::clone_and_play (board.rs): self is the board the method was
\* called on as the call leaves it, next the board that is returned.
clone_and_play(w, mv) ==
  LET next == w
      r == play(next, mv)
  IN IF r.panic THEN r ELSE Ok([self |-> w, next |-> r.val])

(***************************************************************************)
(* BruteforceMoveIterator (board.rs) over a MaxMovesBoard.                 *)
(***************************************************************************)
\* Variant: new does not assert that the board is not done.
BruteforceMoveIterator_new_unchecked(w) == Ok("live")

\* new: the iterator borrows the board, or the assertion fails.
BruteforceMoveIterator_new(w) ==
  IF is_done(w) THEN Panic(FALSE) ELSE Ok("live")

\* try_for_each from the i-th possible move on.  The visitor f breaks at the
\* stop-th move it is handed (stop = 0: it never breaks).  tested lists the
\* moves given to is_available_move, visited the moves given to f.
\* Variant: every possible move is handed to the visitor.
RECURSIVE try_for_each_from_nofilter(_, _, _, _, _)
try_for_each_from_nofilter(w, i, stop, tested, visited) ==
  IF i > Len(all_possible_moves)
  THEN Ok([tested |-> tested, visited |-> visited, broke |-> FALSE])
  ELSE LET mv == all_possible_moves[i]
       IN IF Len(visited) + 1 = stop
          THEN Ok([tested |-> Append(tested, mv),
                   visited |-> Append(visited, mv), broke |-> TRUE])
          ELSE try_for_each_from_nofilter(w, i + 1, stop, Append(tested, mv),
                                          Append(visited, mv))

\* Variant: the visitor's Break is dropped and the scan goes on to the end.
RECURSIVE try_for_each_from_no_break(_, _, _, _, _)
try_for_each_from_no_break(w, i, stop, tested, visited) ==
  IF i > Len(all_possible_moves)
  THEN Ok([tested |-> tested, visited |-> visited, broke |-> FALSE])
  ELSE LET mv == all_possible_moves[i]
           r == is_available_move(w, mv)
       IN IF r.panic THEN r
          ELSE IF r.val
          THEN try_for_each_from_no_break(w, i + 1, stop, Append(tested, mv),
                                          Append(visited, mv))
          ELSE try_for_each_from_no_break(w, i + 1, stop, Append(tested, mv),
                                          visited)

RECURSIVE try_for_each_from(_, _, _, _, _)
try_for_each_from(w, i, stop, tested, visited) ==
  IF i > Len(all_possible_moves)
  THEN Ok([tested |-> tested, visited |-> visited, broke |-> FALSE])
  ELSE LET mv == all_possible_moves[i]
           r == is_available_move(w, mv)
       IN IF r.panic THEN r
          ELSE IF r.val
          THEN IF Len(visited) + 1 = stop
               THEN Ok([tested |-> Append(tested, mv),
                        visited |-> Append(visited, mv), broke |-> TRUE])
               ELSE try_for_each_from(w, i + 1, stop, Append(tested, mv),
                                      Append(visited, mv))
          ELSE try_for_each_from(w, i + 1, stop, Append(tested, mv), visited)

try_for_each(w, stop) == try_for_each_from(w, 1, stop, <<>>, <<>>)

(***************************************************************************)
(* State: one MaxMovesBoard (inner, moves, max_moves), whether a           *)
(* BruteforceMoveIterator currently borrows it (iter), the number of plays *)
(* that returned normally since new (accepted), the board obtained by      *)
(* playing the accepted moves directly on the board given to new (shadow), *)
(* and the last call with its result (last).                               *)
(***************************************************************************)
VARIABLES inner, moves, max_moves, iter, accepted, shadow, last

vars == <<inner, moves, max_moves, iter, accepted, shadow, last>>

board == <<inner, moves, max_moves>>

W == [inner |-> inner, moves |-> moves, max_moves |-> max_moves]

\* The record of a call.  The argument and the returned value are filed
\* under the name of the operation, so that the records of different
\* operations can be told apart whatever the types of their values.
Call(op, arg, r) ==
  [op |-> op, arg |-> (op :> arg), panic |-> r.panic, touched |-> r.touched,
   val |-> IF r.panic THEN ("panic" :> TRUE) ELSE (op :> r.val)]

\* Argument and returned value of the last call.
LastArg == last.arg[last.op]
LastVal == last.val[last.op]

\* MaxMovesBoard::new(inner, max_moves) on any position of the inner game.
Init ==
  /\ \E b \in InnerBoards, cap \in 0..MaxCap :
       /\ inner = new(b, cap).inner
       /\ moves = new(b, cap).moves
       /\ max_moves = new(b, cap).max_moves
       /\ last = Call("new", cap, Ok("unit"))
  /\ iter = "none"
  /\ accepted = 0
  /\ shadow = inner

\* play needs the board exclusively: no iterator may be borrowing it.
Play(mv) ==
  /\ iter = "none"
  /\ moves <= MaxCap /\ accepted <= MaxCap
  /\ LET r == play(W, mv)
     IN /\ last' = Call("play", mv, IF r.panic THEN r ELSE Ok("unit"))
        /\ IF r.panic
           THEN UNCHANGED <<board, accepted, shadow>>
           ELSE /\ inner' = r.val.inner
                /\ moves' = r.val.moves
                /\ max_moves' = r.val.max_moves
                /\ accepted' = accepted + 1
                /\ shadow' = LET d == Inner_play(shadow, mv)
                             IN IF d.panic THEN shadow ELSE d.val
  /\ UNCHANGED iter

IsAvailableMove(mv) ==
  /\ last' = Call("is_available_move", mv, is_available_move(W, mv))
  /\ UNCHANGED <<board, iter, accepted, shadow>>

AvailableMoves ==
  /\ last' = Call("available_moves", "unit", available_moves(W))
  /\ UNCHANGED <<board, iter, accepted, shadow>>

\* The generator hands out an index below the number of available moves.
RandomAvailableMove(index) ==
  /\ LET am == Inner_available_moves(inner)
     IN index < (IF am.panic THEN 1 ELSE Len(am.val))
  /\ last' = Call("random_available_move", index,
                  random_available_move(W, index))
  /\ UNCHANGED <<board, iter, accepted, shadow>>

\* canonicalize of the image of the inner board under sym.
Canonicalize(sym) ==
  /\ last' = Call("canonicalize", sym, Ok(canonicalize(Inner_map(inner, sym))))
  /\ UNCHANGED <<board, iter, accepted, shadow>>

\* map: the image is a new board, the board itself is only read.
Map(sym) ==
  /\ last' = Call("map", sym, Ok(map(W, sym)))
  /\ UNCHANGED <<board, iter, accepted, shadow>>

\* clone_and_play: the returned board goes to the caller.
CloneAndPlay(mv) ==
  /\ LET r == clone_and_play(W, mv)
     IN /\ last' = Call("clone_and_play", mv,
                        IF r.panic THEN r ELSE Ok(r.val.next))
        /\ IF r.panic
           THEN UNCHANGED board
           ELSE /\ inner' = r.val.self.inner
                /\ moves' = r.val.self.moves
                /\ max_moves' = r.val.self.max_moves
  /\ UNCHANGED <<iter, accepted, shadow>>

BruteNew ==
  /\ iter = "none"
  /\ LET r == BruteforceMoveIterator_new(W)
     IN /\ last' = Call("bruteforce_new", "unit", r)
        /\ iter' = IF r.panic THEN "none" ELSE r.val
  /\ UNCHANGED <<board, accepted, shadow>>

\* try_for_each takes the iterator by value: the borrow ends with the call.
BruteTryForEach(stop) ==
  /\ iter = "live"
  /\ last' = Call("try_for_each", stop, try_for_each(W, stop))
  /\ iter' = "none"
  /\ UNCHANGED <<board, accepted, shadow>>

Next ==
  \/ \E mv \in Moves : Play(mv)
  \/ \E mv \in Moves : IsAvailableMove(mv)
  \/ AvailableMoves
  \/ \E index \in 0..(Len(Inner_all_possible_moves) - 1) :
       RandomAvailableMove(index)
  \/ \E sym \in Symmetries : Canonicalize(sym)
  \/ \E sym \in Symmetries : Map(sym)
  \/ \E mv \in Moves : CloneAndPlay(mv)
  \/ BruteNew
  \/ \E stop \in 0..Len(all_possible_moves) : BruteTryForEach(stop)

Spec == Init /\ [][Next]_vars

\* A run that keeps playing legal moves: a play that the board accepts is
\* eventually made whenever it stays possible again and again, and an
\* iterator that borrows the board is eventually consumed.
AcceptedPlay ==
  /\ iter = "none"
  /\ moves <= MaxCap /\ accepted <= MaxCap
  /\ \E mv \in Moves :
       /\ ~play(W, mv).panic
       /\ inner' = play(W, mv).val.inner
       /\ moves' = play(W, mv).val.moves
       /\ max_moves' = play(W, mv).val.max_moves
       /\ accepted' = accepted + 1

ReleaseIterator == iter = "live" /\ iter' = "none"

FairSpec ==
  /\ Init /\ [][Next]_vars
  /\ SF_<<inner, moves, max_moves, accepted>>(AcceptedPlay)
  /\ WF_iter(ReleaseIterator)

TypeOK ==
  /\ inner \in InnerBoards
  /\ moves \in 0..MaxCap
  /\ max_moves \in 0..MaxCap
  /\ accepted \in 0..MaxCap
  /\ iter \in {"none", "live"}
  /\ shadow \in InnerBoards

(***************************************************************************)
(* Properties.                                                             *)
(***************************************************************************)
ToSet(seq) == {seq[i] : i \in 1..Len(seq)}

\* C1: whenever the ply counter equals the cap, outcome() is Draw, whatever
\* the inner board's own outcome is.
C1_DrawAtCap == moves = max_moves => outcome(W) = Draw

\* The ply that reached the cap was a winning move of the inner game.
C1_Witness ==
  /\ last.op = "play" /\ ~last.panic
  /\ moves = max_moves
  /\ Inner_outcome(inner) \in {WonBy("A"), WonBy("B")}
  /\ outcome(W) = Draw

\* C2: whenever the ply counter differs from the cap, outcome() is exactly
\* the inner board's outcome.
C2_InnerOutcomeBeforeCap ==
  moves # max_moves => outcome(W) = Inner_outcome(inner)

C2_Witness ==
  /\ last.op = "play" /\ ~last.panic
  /\ moves # max_moves
  /\ outcome(W) = WonBy("B")

\* C3: while the inner board is ongoing, the outcome is absent after fewer
\* accepted plays than the cap and Draw after exactly as many as the cap.
C3_DrawAfterCapPlays ==
  Inner_outcome(inner) = None =>
    /\ accepted < max_moves => outcome(W) = None
    /\ accepted = max_moves => outcome(W) = Draw

C3_Witness ==
  /\ accepted = 3 /\ max_moves = 3
  /\ Inner_outcome(inner) = None
  /\ outcome(W) = Draw

\* C4: the canonical form of the image of a board under any symmetry is the
\* canonical form of the board.
C4_CanonicalInvariant ==
  /\ \A sym \in Symmetries :
       canonicalize(Inner_map(inner, sym)) = canonicalize(inner)
  /\ last.op = "canonicalize" => LastVal = canonicalize(inner)

\* canonicalize was called on an image that differs from the board, and the
\* canonical form is neither of the two.
C4_Witness ==
  /\ last.op = "canonicalize"
  /\ Inner_map(inner, LastArg) # inner
  /\ LastVal # inner /\ LastVal # Inner_map(inner, LastArg)
  /\ LastVal = canonicalize(inner)

\* The first index, in enumeration order, whose image of b has the least key.
FirstMinimum(b) ==
  LET cands == candidates(b)
      IsMin(i) == \A j \in 1..Len(cands) :
                    Inner_canonical_key(cands[i]) <= Inner_canonical_key(cands[j])
  IN CHOOSE i \in 1..Len(cands) : IsMin(i) /\ \A j \in 1..(i - 1) : ~IsMin(j)

\* C5: canonicalize returns the image under the first element, in the order
\* of Symmetry::all(), whose image has the minimum canonical key.
C5_FirstMinimumSelected ==
  /\ min_by_key(candidates(inner)) = FirstMinimum(inner)
  /\ canonicalize(inner) = Inner_map(inner, Symmetry_all[FirstMinimum(inner)])
  /\ last.op = "canonicalize" =>
       LET b == Inner_map(inner, LastArg)
       IN /\ min_by_key(candidates(b)) = FirstMinimum(b)
          /\ LastVal = Inner_map(b, Symmetry_all[FirstMinimum(b)])

\* canonicalize was called on a board where a later element reaches the
\* minimum key too, and the minimum is not reached by the identity.
C5_Witness ==
  /\ last.op = "canonicalize"
  /\ LET b == Inner_map(inner, LastArg)
         cands == candidates(b)
         first == FirstMinimum(b)
     IN /\ first > 1
        /\ \E j \in (first + 1)..Len(cands) :
             Inner_canonical_key(cands[j]) = Inner_canonical_key(cands[first])
        /\ LastVal = cands[first]

\* C6: on a non-finished board the moves the bruteforce iterator hands to a
\* visitor that never stops are, as a set, the moves of available_moves().
C6_BruteforceEqualsAvailable ==
  /\ ~is_done(W) =>
       /\ ~try_for_each(W, 0).panic
       /\ ToSet(try_for_each(W, 0).val.visited) = ToSet(available_moves(W).val)
  /\ last.op = "try_for_each" /\ LastArg = 0 =>
       /\ ~last.panic
       /\ ToSet(LastVal.visited) = ToSet(available_moves(W).val)

\* A full iteration that filtered some possible move out.
C6_Witness ==
  /\ last.op = "try_for_each" /\ LastArg = 0 /\ ~last.panic
  /\ Len(LastVal.visited) < Len(LastVal.tested)
  /\ Len(LastVal.visited) > 1

RejectedOps == {"play", "is_available_move", "available_moves",
                "random_available_move"}

\* C7: on a finished board play, is_available_move, available_moves and
\* random_available_move panic before the inner board is called, and leave
\* the inner board and the ply counter as they were.
C7_FinishedRejects ==
  [][is_done(W) /\ last'.op \in RejectedOps =>
       /\ last'.panic /\ ~last'.touched
       /\ inner' = inner /\ moves' = moves /\ max_moves' = max_moves]_vars

\* play was rejected on a board that is finished because its inner board is.
C7_Witness ==
  /\ last.op = "play" /\ last.panic /\ ~last.touched
  /\ is_done(W) /\ moves # max_moves

\* C8: BruteforceMoveIterator::new panics exactly on a finished board, so no
\* iterator over a finished board exists.
C8_NoIteratorOverFinished ==
  /\ iter = "live" => ~is_done(W)
  /\ last.op = "bruteforce_new" =>
       /\ last.panic <=> is_done(W)
       /\ ~last.panic <=> iter = "live"

C8_Witness ==
  /\ last.op = "bruteforce_new" /\ last.panic
  /\ is_done(W) /\ iter = "none"

\* C9: is_done() is outcome().is_some(), which for MaxMovesBoard is true
\* exactly when moves = max_moves or the inner board is done.
C9_DoneIffCapOrInnerDone ==
  /\ is_done(W) <=> outcome(W) \in Outcome
  /\ is_done(W) <=> (moves = max_moves \/ Inner_is_done(inner))

\* The board is at the cap while its inner board is still ongoing.
C9_Witness ==
  /\ is_done(W) /\ moves = max_moves /\ accepted > 0
  /\ ~Inner_is_done(inner)

\* C10: on a non-finished board available_moves() is non-empty and a subset
\* of all_possible_moves(), and the inner board is not finished.
C10_AvailableNonEmptySubset ==
  ~is_done(W) =>
    LET am == available_moves(W)
    IN /\ ~am.panic
       /\ Len(am.val) > 0
       /\ ToSet(am.val) \subseteq ToSet(all_possible_moves)
       /\ ~Inner_is_done(inner)

C10_Witness ==
  /\ last.op = "available_moves" /\ ~last.panic
  /\ ~is_done(W) /\ accepted > 0
  /\ Len(LastVal) > 1
  /\ ToSet(LastVal) \subseteq ToSet(all_possible_moves)

\* The moves that play accepts on w.
LegalMoves(w) == {mv \in Moves : ~play(w, mv).panic}

\* C11: for a non-finished board, a legal move and a symmetry, mapping the
\* board that clone_and_play returns gives the board that clone_and_play
\* returns for the mapped move on the mapped board.
C11_MapCommutesWithPlay ==
  /\ \A mv \in LegalMoves(W), sym \in Symmetries :
       LET r == clone_and_play(map(W, sym), map_move(sym, mv))
       IN /\ ~r.panic
          /\ map(clone_and_play(W, mv).val.next, sym) = r.val.next
  /\ last.op = "clone_and_play" /\ ~last.panic =>
       \A sym \in Symmetries :
         map(LastVal, sym) =
           clone_and_play(map(W, sym), map_move(sym, LastArg)).val.next

\* clone_and_play returned a board that some symmetry changes, on a wrapper
\* that had already counted a ply.
C11_Witness ==
  /\ last.op = "clone_and_play" /\ ~last.panic
  /\ LastArg # Pass /\ moves > 0
  /\ \E sym \in Symmetries :
       /\ map_move(sym, LastArg) # LastArg
       /\ map(LastVal, sym) # LastVal
       /\ map(LastVal, sym) =
            clone_and_play(map(W, sym), map_move(sym, LastArg)).val.next

\* C12: clone_and_play leaves the board it is called on as it was, returns
\* the board that play gives from that state, and panics exactly when play
\* does.
C12_CloneAndPlayFrame ==
  /\ [][last'.op = "clone_and_play" =>
          inner' = inner /\ moves' = moves /\ max_moves' = max_moves
       ]_<<inner, moves, max_moves, last.op>>
  /\ [](last.op = "clone_and_play" =>
          /\ last.panic <=> play(W, LastArg).panic
          /\ ~last.panic => LastVal = play(W, LastArg).val)

\* clone_and_play returned a board one ply ahead of the unchanged original.
C12_Witness ==
  /\ last.op = "clone_and_play" /\ ~last.panic
  /\ LastVal.moves = moves + 1
  /\ LastVal.inner # inner
  /\ accepted = moves

\* C13: on a non-finished board with count available moves,
\* random_available_move returns for each index below count the move at that
\* index of available_moves; it is an available move, and every available
\* move is returned for exactly one index.
C13_RandomMoveByIndex ==
  /\ ~is_done(W) =>
       LET am == available_moves(W).val
           count == Len(am)
           pick(i) == random_available_move(W, i)
       IN /\ count > 0
          /\ \A i \in 0..(count - 1) :
               /\ ~pick(i).panic
               /\ pick(i).val = am[i + 1]
               /\ is_available_move(W, pick(i).val).val
          /\ \A mv \in ToSet(am) :
               Cardinality({i \in 0..(count - 1) : pick(i).val = mv}) = 1
  /\ last.op = "random_available_move" /\ ~is_done(W) =>
       /\ ~last.panic
       /\ LastVal = available_moves(W).val[LastArg + 1]

\* The generator drew the last index of a board with several moves.
C13_Witness ==
  /\ last.op = "random_available_move" /\ ~last.panic
  /\ LastArg > 1
  /\ LastArg + 1 = Len(available_moves(W).val)
  /\ LastVal = available_moves(W).val[LastArg + 1]
  /\ LastVal # Pass

\* C14: Player::other is an involution without fixed point, for both
\* players and so for the player to move of every reachable board.
C14_OtherInvolution ==
  /\ \A p \in Player :
       /\ other(p) \in Player
       /\ other(other(p)) = p
       /\ other(p) # p
  /\ other(other(next_player(W))) = next_player(W)
  /\ other(next_player(W)) # next_player(W)

\* Two plies were played, each handing the move over with other.
C14_Witness ==
  /\ last.op = "play" /\ ~last.panic /\ accepted = 2
  /\ next_player(W) = "B"
  /\ other(next_player(W)) = "A"
  /\ other(other(next_player(W))) = "B"

\* C15: the ply counter is the number of accepted plays: an accepted play
\* hands the move to the inner board and adds exactly one, a rejected play
\* and every other operation leave the counter alone, and nothing changes
\* max_moves.
C15_MovesCountsAcceptedPlays ==
  /\ [](moves = accepted)
  /\ [][/\ max_moves' = max_moves
        /\ moves' # moves => last'.op = "play" /\ ~last'.panic
        /\ last'.op = "play" /\ last'.panic => moves' = moves /\ inner' = inner
        /\ last'.op = "play" /\ ~last'.panic =>
             /\ moves' = moves + 1
             /\ inner' = Inner_play(inner, LastArg').val
       ]_<<inner, moves, max_moves, accepted, last.op, last.panic>>

\* A play was rejected by the inner board after two accepted plays.
C15_Witness ==
  /\ last.op = "play" /\ last.panic /\ last.touched
  /\ moves = 2 /\ accepted = 2 /\ moves < max_moves

\* C16: try_for_each tests the possible moves in the order of
\* all_possible_moves(), hands the visitor exactly the available ones among
\* those it tested, and stops with Break at the move on which the visitor
\* breaks: no later move is tested or visited.
C16_OrderedScanWithEarlyStop ==
  last.op = "try_for_each" =>
    /\ ~last.panic
    /\ LET tested == LastVal.tested
           visited == LastVal.visited
           stop == LastArg
           Available(mv) == is_available_move(W, mv).val
           total == Len(SelectSeq(all_possible_moves, Available))
       IN /\ tested = SubSeq(all_possible_moves, 1, Len(tested))
          /\ visited = SelectSeq(tested, Available)
          /\ LastVal.broke <=> (stop > 0 /\ stop <= total)
          /\ LastVal.broke =>
               /\ Len(visited) = stop
               /\ tested[Len(tested)] = visited[Len(visited)]
          /\ ~LastVal.broke => tested = all_possible_moves

\* The visitor broke at its second move, after an unavailable move had been
\* skipped and before the possible moves were exhausted.
C16_Witness ==
  /\ last.op = "try_for_each" /\ ~last.panic
  /\ LastVal.broke /\ LastArg = 2
  /\ Len(LastVal.visited) = 2
  /\ Len(LastVal.tested) > 2
  /\ Len(LastVal.tested) < Len(all_possible_moves)

\* C17: the inner board of the wrapper is the board obtained by playing the
\* accepted moves directly on the board given to new, and next_player() of
\* the wrapper is next_player() of that board, finished or not.
C17_InnerTransitionsUnaltered ==
  /\ inner = shadow
  /\ next_player(W) = Inner_next_player(shadow)

\* Three marks were placed through the wrapper, which is finished at its cap
\* while the inner game goes on with B to move.
C17_Witness ==
  /\ accepted = 3 /\ moves = max_moves /\ is_done(W)
  /\ ~Inner_is_done(shadow)
  /\ inner = shadow
  /\ next_player(W) = "B" /\ Inner_next_player(shadow) = "B"
  /\ last.op = "play" /\ ~last.panic /\ LastArg # Pass

\* C18: the ply counter never passes the cap, and it is incremented only
\* from a value below the cap, so that the incremented value is at most
\* max_moves (and with it within the range of the counter's type).
C18_CounterNeverPassesCap ==
  /\ [](moves <= max_moves)
  /\ [][moves' # moves =>
          /\ moves < max_moves
          /\ moves' = moves + 1
          /\ moves' <= max_moves
       ]_<<moves, max_moves>>

\* A play was rejected at the cap although the inner board would take it.
C18_Witness ==
  /\ last.op = "play" /\ last.panic /\ ~last.touched
  /\ moves = max_moves /\ moves > 0
  /\ ~Inner_play(inner, LastArg).panic

\* C19: at most max_moves plays are ever accepted, the board is done once
\* max_moves plays were accepted, and every run that keeps playing legal
\* moves reaches a done board.
C19_GameTerminates ==
  /\ [](accepted <= max_moves)
  /\ [](accepted = max_moves => is_done(W))
  /\ <>is_done(W)

\* The cap ended a game of passes that the inner board would let go on.
C19_Witness ==
  /\ accepted = max_moves /\ accepted > 1 /\ is_done(W)
  /\ ~Inner_is_done(inner)
  /\ inner.cells = <<0, 0, 0, 0>>
  /\ last.op = "play" /\ ~last.panic /\ LastArg = Pass

\* C20: once the board is done no operation changes the inner board, moves
\* or max_moves, and outcome() keeps its value.
C20_FinishedIsAbsorbing ==
  [][is_done(W) =>
       /\ inner' = inner /\ moves' = moves /\ max_moves' = max_moves
       /\ outcome(W)' = outcome(W)
    ]_<<inner, moves, max_moves>>

\* A board won by A before its cap rejected a further move and is still won
\* by A.
C20_Witness ==
  /\ last.op \in {"play", "clone_and_play"} /\ last.panic
  /\ accepted > 0 /\ moves < max_moves
  /\ outcome(W) = WonBy("A")
====
